---- MODULE Spec2Model ----
(***************************************************************************)
(* A model of rsinc, a two-way file synchroniser built on rclone.          *)
(*                                                                         *)
(*   src/sinc.py            the single-file script: differ (build_dif),    *)
(*                          decision table (LOGIC), reconciler (sync),     *)
(*                          conflict handler, packed baseline tree         *)
(*   src/rsinc/__main__.py  the packaged entry point: queue of folders,    *)
(*                          crash sentinel (TEMP_FILE), history, baseline  *)
(*                                                                         *)
(* Strings are sequences of one-character strings, so that split, join,    *)
(* lower and concatenation are computed and not assumed.                   *)
(***************************************************************************)
EXTENDS Integers, Sequences, FiniteSets, TLC

(***************************************************************************)
(* Bounds of the model.                                                    *)
(***************************************************************************)
MaxSize == 2
MaxTime == 2
MaxOps == 2
MaxReq == 2
MaxJobs == 2
MaxRuns == 2

(***************************************************************************)
(* Strings.                                                                *)
(***************************************************************************)
\* The characters the model uses, in code-point order.
Alphabet == <<".", "/", "A", "_", "a", "c", "d", "e", "f", "i", "l", "m", "n", "o", "p", "r", "t">>

ord(c) == CHOOSE i \in DOMAIN Alphabet : Alphabet[i] = c

lowerChar(c) == IF c = "A" THEN "a" ELSE c

lower(s) == [i \in DOMAIN s |-> lowerChar(s[i])]

\* s < t, as Python compares str.
StrLess(s, t) ==
    \E i \in 1..(Len(t)) :
        /\ \A j \in 1..(i - 1) : j <= Len(s) /\ s[j] = t[j]
        /\ \/ i = Len(s) + 1
           \/ i <= Len(s) /\ ord(s[i]) < ord(t[i])

RECURSIVE sorted(_)
sorted(S) ==
    IF S = {} THEN <<>>
    ELSE LET m == CHOOSE x \in S : \A y \in S \ {x} : StrLess(x, y)
         IN  <<m>> \o sorted(S \ {m})

RECURSIVE split(_)
split(s) ==
    IF \A i \in DOMAIN s : s[i] # "/" THEN <<s>>
    ELSE LET i == CHOOSE k \in DOMAIN s : s[k] = "/" /\ \A j \in 1..(k - 1) : s[j] # "/"
         IN  <<SubSeq(s, 1, i - 1)>> \o split(SubSeq(s, i + 1, Len(s)))

RECURSIVE join(_)
join(chain) ==
    IF Len(chain) = 0 THEN <<>>
    ELSE IF Len(chain) = 1 THEN chain[1]
    ELSE chain[1] \o <<"/">> \o join(Tail(chain))

\* str.translate(swap), swap = str.maketrans("/", "_")
swap(s) == [i \in DOMAIN s |-> IF s[i] = "/" THEN "_" ELSE s[i]]

TMP == <<".", "t", "m", "p">>
LCL_CONFLICT == <<".", "l", "c", "l", "_", "c", "o", "n", "f", "l", "i", "c", "t">>
RMT_CONFLICT == <<".", "r", "m", "t", "_", "c", "o", "n", "f", "l", "i", "c", "t">>

IsPrefix(p, s) == Len(p) <= Len(s) /\ SubSeq(s, 1, Len(p)) = p

(***************************************************************************)
(* Dictionaries: functions with a finite domain.                           *)
(***************************************************************************)
EmptyDict == [k \in {} |-> k]

Upd(d, k, v) == [x \in DOMAIN d \cup {k} |-> IF x = k THEN v ELSE d[x]]

Del(d, k) == [x \in DOMAIN d \ {k} |-> d[x]]

(***************************************************************************)
(* Files and listings.                                                     *)
(***************************************************************************)
FileState == [bytesize : 1..MaxSize, datetime : 1..MaxTime]

\* The folder the script is asked to sync, and the file names met in it: two
\* names that differ in case only.
Folder == <<"d">>
Names == {<<"a">>, <<"A">>}

\* Listings of the folder: at most one file each.
Snapshots ==
    {EmptyDict} \cup UNION {[{n} -> FileState] : n \in Names}

\* A side's files, keyed by path below the side's base (BASE_L, BASE_R).
TreeOf(folder, snap) ==
    [p \in {folder \o <<"/">> \o k : k \in DOMAIN snap} |->
        snap[SubSeq(p, Len(folder) + 2, Len(p))]]

\* rclone lsl path: every file below path, keyed by its path relative to it.
lsl(fs, path) ==
    LET dir  == IF Len(path) > 0 /\ path[Len(path)] = "/" THEN path ELSE path \o <<"/">>
        here == {p \in DOMAIN fs : IsPrefix(dir, p)}
    IN  [k \in {SubSeq(p, Len(dir) + 1, Len(p)) : p \in here} |-> fs[dir \o k]]

\* What lsl returns for a listing d: the lines rclone printed.  When rclone
\* fails on the way these are not all of d; its exit status is not looked at.
Heard(d) == {[k \in K |-> d[k]] : K \in SUBSET DOMAIN d}

(***************************************************************************)
(* Packed dictionaries: the baseline tree of master.json.                  *)
(***************************************************************************)
empty == [fold |-> EmptyDict, file |-> EmptyDict]

RECURSIVE insert(_, _)
insert(nest, chain) ==
    IF Len(chain) = 2
    THEN [nest EXCEPT !.file = Upd(@, chain[1], chain[2])]
    ELSE LET n1 == IF chain[1] \in DOMAIN nest.fold THEN nest
                   ELSE [nest EXCEPT !.fold = Upd(@, chain[1], empty)]
         IN  [n1 EXCEPT !.fold = Upd(@, chain[1], insert(n1.fold[chain[1]], Tail(chain)))]

RECURSIVE packFrom(_, _, _)
packFrom(nest, d, keys) ==
    IF keys = {} THEN nest
    ELSE LET k == CHOOSE x \in keys : TRUE
         IN  packFrom(insert(nest, split(k) \o <<d[k]>>), d, keys \ {k})

pack(d) == packFrom(empty, d, DOMAIN d)

RECURSIVE unpack(_, _, _)
RECURSIVE unpackFolds(_, _, _, _)
unpack(nest, d, path) ==
    LET d1 == [k \in DOMAIN d \cup {path \o n : n \in DOMAIN nest.file} |->
                 IF \E n \in DOMAIN nest.file : k = path \o n
                 THEN nest.file[SubSeq(k, Len(path) + 1, Len(k))]
                 ELSE d[k]]
    IN  unpackFolds(nest, d1, path, DOMAIN nest.fold)

unpackFolds(nest, d, path, folds) ==
    IF folds = {} THEN d
    ELSE LET k == CHOOSE x \in folds : TRUE
         IN  unpackFolds(nest, unpack(nest.fold[k], d, path \o k \o <<"/">>), path, folds \ {k})

\* A failed lookup (KeyError) is the value Missing.
Missing == [missing |-> TRUE]

RECURSIVE _get_branch(_, _)
_get_branch(nest, chain) ==
    IF Len(chain) = 0 THEN nest
    ELSE IF chain[1] \notin DOMAIN nest.fold THEN Missing
    ELSE _get_branch(nest.fold[chain[1]], Tail(chain))

get_branch(nest, path) == _get_branch(nest, split(path))

RECURSIVE _merge(_, _, _)
_merge(nest, chain, new) ==
    IF Len(chain) = 1
    THEN [nest EXCEPT !.fold = Upd(@, chain[1], new)]
    ELSE LET n1 == IF chain[1] \in DOMAIN nest.fold THEN nest
                   ELSE [nest EXCEPT !.fold = Upd(@, chain[1], empty)]
         IN  [n1 EXCEPT !.fold = Upd(@, chain[1], _merge(n1.fold[chain[1]], Tail(chain), new))]

\* merge, were it to build the tree anew around the branch
merge_anew(nest, path, new) == _merge(empty, split(path), new)

merge(nest, path, new) == _merge(nest, split(path), new)

RECURSIVE _have(_, _)
_have(nest, chain) ==
    IF Len(chain) = 1
    THEN chain[1] \in DOMAIN nest.fold
    ELSE IF chain[1] \in DOMAIN nest.fold
         THEN _have(nest.fold[chain[1]], Tail(chain))
         ELSE FALSE

have(master_, path) == _have(master_, split(path))

RECURSIVE _get_min(_, _, _)
_get_min(nest, chain, min_chain) ==
    IF Len(chain) = 1 THEN min_chain
    ELSE IF chain[1] \notin DOMAIN nest.fold THEN min_chain
    ELSE _get_min(nest.fold[chain[1]], Tail(chain), Append(min_chain, chain[2]))

get_min(master_, path) ==
    LET chain == split(path) IN join(_get_min(master_, chain, <<chain[1]>>))

(***************************************************************************)
(* The differ: class data of sinc.py.                                      *)
(***************************************************************************)
\* data.__init__
data ==
    [d_old |-> EmptyDict, d_tmp |-> EmptyDict, d_dif |-> EmptyDict,
     s_old |-> {}, s_tmp |-> {}, s_dif |-> {}, s_low |-> {}]

build_dif_ge(self) ==
    LET s_old   == DOMAIN self.d_old
        s_tmp   == DOMAIN self.d_tmp
        deleted == s_old \ s_tmp
        created == s_tmp \ s_old
        both    == s_tmp \cap s_old
        d_dif   == [key \in DOMAIN self.d_dif \cup created \cup deleted \cup both |->
                      IF key \in both
                      THEN IF self.d_old[key].bytesize # self.d_tmp[key].bytesize THEN 1
                           ELSE IF self.d_tmp[key].datetime >= self.d_old[key].datetime THEN 1
                           ELSE 0
                      ELSE IF key \in deleted THEN 2
                      ELSE IF key \in created THEN 3
                      ELSE self.d_dif[key]]
    IN  [self EXCEPT !.s_old = s_old, !.s_tmp = s_tmp,
                     !.s_low = {lower(k) : k \in s_tmp},
                     !.d_dif = d_dif, !.s_dif = DOMAIN d_dif]

\* data.build_dif: 0 unchanged, 1 modified, 2 deleted, 3 created
build_dif(self) ==
    LET s_old   == DOMAIN self.d_old
        s_tmp   == DOMAIN self.d_tmp
        deleted == s_old \ s_tmp
        created == s_tmp \ s_old
        both    == s_tmp \cap s_old
        d_dif   == [key \in DOMAIN self.d_dif \cup created \cup deleted \cup both |->
                      IF key \in both
                      THEN IF self.d_old[key].bytesize # self.d_tmp[key].bytesize THEN 1
                           ELSE IF self.d_tmp[key].datetime > self.d_old[key].datetime THEN 1
                           ELSE 0
                      ELSE IF key \in deleted THEN 2
                      ELSE IF key \in created THEN 3
                      ELSE self.d_dif[key]]
    IN  [self EXCEPT !.s_old = s_old, !.s_tmp = s_tmp,
                     !.s_low = {lower(k) : k \in s_tmp},
                     !.d_dif = d_dif, !.s_dif = DOMAIN d_dif]

\* direct.__init__: the local and the remote data of one folder
direct(arg) == [lcl |-> data, rmt |-> data, path |-> arg]

(***************************************************************************)
(* Functions for moving files about.  A world w is the two sides' files    *)
(* and the job counter; dry and skp are the globals dry_run and skip.      *)
(***************************************************************************)
\* rclone copyto source dest, between two sides
copyto(from, to, source, dest) ==
    IF source \in DOMAIN from THEN Upd(to, dest, from[source]) ELSE to

\* rclone moveto source dest, within one side
moveto(fs, source, dest) ==
    IF source \in DOMAIN fs THEN Upd(Del(fs, source), dest, fs[source]) ELSE fs

cpyR(w, source, dest, dry) ==
    [w EXCEPT !.counter = @ + 1,
              !.rmt = IF dry THEN @ ELSE copyto(w.lcl, @, source, dest)]

cpyL(w, dest, source, dry) ==
    [w EXCEPT !.counter = @ + 1,
              !.lcl = IF dry THEN @ ELSE copyto(w.rmt, @, source, dest)]

null(w) == w

conflict_clobber(w, source, dest, dry, skp) ==
    IF skp THEN w
    ELSE LET w1 == IF dry THEN w
                   ELSE [w EXCEPT !.lcl = moveto(@, source, source \o LCL_CONFLICT),
                                  !.rmt = moveto(@, dest, dest \o LCL_CONFLICT)]
             w2 == cpyR(w1, source \o LCL_CONFLICT, dest \o LCL_CONFLICT, dry)
         IN  cpyL(w2, source \o RMT_CONFLICT, dest \o RMT_CONFLICT, dry)

conflict(w, source, dest, dry, skp) ==
    IF skp THEN w
    ELSE LET w1 == IF dry THEN w
                   ELSE [w EXCEPT !.lcl = moveto(@, source, source \o LCL_CONFLICT),
                                  !.rmt = moveto(@, dest, dest \o RMT_CONFLICT)]
             w2 == cpyR(w1, source \o LCL_CONFLICT, dest \o LCL_CONFLICT, dry)
         IN  cpyL(w2, source \o RMT_CONFLICT, dest \o RMT_CONFLICT, dry)

delL(w, left, right, dry) ==
    [w EXCEPT !.counter = @ + 1, !.lcl = IF dry THEN @ ELSE Del(@, left)]

delR(w, left, right, dry) ==
    [w EXCEPT !.counter = @ + 1, !.rmt = IF dry THEN @ ELSE Del(@, right)]

\* One dispatched call c = [fn, key] of sync, applied to the world.
apply(w, c, lpath, rpath, dry, skp) ==
    CASE c.fn = "cpyR"     -> cpyR(w, lpath \o c.key, rpath \o c.key, dry)
      [] c.fn = "cpyL"     -> cpyL(w, lpath \o c.key, rpath \o c.key, dry)
      [] c.fn = "delL"     -> delL(w, lpath \o c.key, rpath \o c.key, dry)
      [] c.fn = "delR"     -> delR(w, lpath \o c.key, rpath \o c.key, dry)
      [] c.fn = "conflict" -> conflict(w, lpath \o c.key, rpath \o c.key, dry, skp)
      [] OTHER             -> null(w)

RECURSIVE applyAll(_, _, _, _, _, _)
applyAll(w, cs, lpath, rpath, dry, skp) ==
    IF cs = <<>> THEN w
    ELSE applyAll(apply(w, Head(cs), lpath, rpath, dry, skp), Tail(cs), lpath, rpath, dry, skp)

(***************************************************************************)
(* The reconciler.                                                         *)
(***************************************************************************)
CASE_INSENSATIVE_off == FALSE

CASE_INSENSATIVE == TRUE

LOGIC_delR_first ==
    << <<"delR", "cpyL", "delL", "conflict">>,
       <<"cpyR", "conflict", "cpyR", "conflict">>,
       <<"delR", "cpyL", "null", "cpyL">>,
       <<"conflict", "conflict", "cpyR", "conflict">> >>

\* LOGIC[lcl class][rmt class], classes 0..3 (here rows and columns 1..4)
LOGIC ==
    << <<"null", "cpyL", "delL", "conflict">>,
       <<"cpyR", "conflict", "cpyR", "conflict">>,
       <<"delR", "cpyL", "null", "cpyL">>,
       <<"conflict", "conflict", "cpyR", "conflict">> >>

\* for key in sorted(lcl_dif)
RECURSIVE push_loop(_, _)
push_loop(f_, keys) ==
    IF keys = <<>> THEN <<>>
    ELSE LET key == Head(keys)
             c   == IF f_.lcl.d_dif[key] # 2
                    THEN IF CASE_INSENSATIVE /\ lower(key) \in f_.rmt.s_low
                         THEN <<[fn |-> "not_pushing", key |-> key]>>
                         ELSE <<[fn |-> "cpyR", key |-> key]>>
                    ELSE <<>>
         IN  c \o push_loop(f_, Tail(keys))

\* for key in sorted(rmt_dif)
RECURSIVE pull_loop(_, _)
pull_loop(f_, keys) ==
    IF keys = <<>> THEN <<>>
    ELSE LET key == Head(keys)
             c   == IF f_.rmt.d_dif[key] # 2
                    THEN IF CASE_INSENSATIVE /\ lower(key) \in f_.lcl.s_low
                         THEN <<[fn |-> "not_pulling", key |-> key]>>
                         ELSE <<[fn |-> "cpyL", key |-> key]>>
                    ELSE <<>>
         IN  c \o pull_loop(f_, Tail(keys))

\* if recover: for key in sorted(inter), comparing sizes and times; a key
\* that one listing lacks raises KeyError (err) and ends the loop.
RECURSIVE recover_loop(_, _)
recover_loop(f_, keys) ==
    IF keys = <<>> THEN [calls |-> <<>>, err |-> FALSE]
    ELSE LET key == Head(keys)
         IN  IF key \notin DOMAIN f_.lcl.d_tmp \/ key \notin DOMAIN f_.rmt.d_tmp
             THEN [calls |-> <<>>, err |-> TRUE]
             ELSE LET l    == f_.lcl.d_tmp[key]
                      r    == f_.rmt.d_tmp[key]
                      c    == IF l.bytesize # r.bytesize
                              THEN IF l.datetime > r.datetime
                                   THEN <<[fn |-> "cpyR", key |-> key]>>
                                   ELSE IF l.datetime < r.datetime
                                        THEN <<[fn |-> "cpyL", key |-> key]>>
                                        ELSE <<>>
                              ELSE <<>>
                      rest == recover_loop(f_, Tail(keys))
                  IN  [calls |-> c \o rest.calls, err |-> rest.err]

\* for key in sorted(inter): LOGIC[f.lcl.d_dif[key]][f.rmt.d_dif[key]](...)
RECURSIVE logic_loop(_, _)
logic_loop(f_, keys) ==
    IF keys = <<>> THEN <<>>
    ELSE LET key == Head(keys)
         IN  <<[fn |-> LOGIC[f_.lcl.d_dif[key] + 1][f_.rmt.d_dif[key] + 1], key |-> key]>>
             \o logic_loop(f_, Tail(keys))

\* sync with the else bound to the if, not to the for
sync_if_else(f_, lcl_dif_, rmt_dif_, inter_, rec) ==
    LET one == push_loop(f_, sorted(lcl_dif_)) \o pull_loop(f_, sorted(rmt_dif_))
        r   == recover_loop(f_, sorted(inter_))
    IN  IF rec
        THEN [calls |-> one \o r.calls, err |-> r.err]
        ELSE [calls |-> one \o logic_loop(f_, sorted(inter_)), err |-> FALSE]

\* sync: the calls it dispatches, in order, and whether it raised.  The else
\* of lines 365-368 belongs to the for of line 359: the table loop runs after
\* the recover loop has run to its end, and not at all when recover is off.
sync(f_, lcl_dif_, rmt_dif_, inter_, rec) ==
    LET one == push_loop(f_, sorted(lcl_dif_)) \o pull_loop(f_, sorted(rmt_dif_))
        r   == recover_loop(f_, sorted(inter_))
    IN  IF rec
        THEN IF r.err
             THEN [calls |-> one \o r.calls, err |-> TRUE]
             ELSE [calls |-> one \o r.calls \o logic_loop(f_, sorted(inter_)), err |-> FALSE]
        ELSE [calls |-> one, err |-> FALSE]

(***************************************************************************)
(* State.                                                                  *)
(***************************************************************************)
VARIABLES
    pc,          \* where the run stands
    master,      \* master.json: the packed baseline tree
    tmps,        \* the .tmp files that exist
    lclFS,       \* the local side's files, by path below BASE_L
    rmtFS,       \* the remote side's files, by path below BASE_R
    dry_run,     \* args.dry
    recover,     \* args.recovery, later set by a crash or a first run
    first_run,
    skip,        \* args.skip
    auto,        \* args.auto
    f,           \* the direct object of the folder being synced
    min_path,
    lcl_dif,
    rmt_dif,
    inter,
    counter,
    total_jobs,
    calls,       \* what the last sync dispatched, in order
    raised,      \* whether the last sync raised
    requested,   \* __main__: the folders asked for, below BASE_L
    folders,     \* __main__: the queue of the main loop
    idx,         \* __main__: the place of the main loop in folders
    history,     \* __main__: the folders synced before
    MASTER,      \* __main__: the master file
    TEMP_FILE,   \* __main__: the crash sentinel
    corrupt,     \* __main__: the folder the sentinel named at start
    args_recovery,
    total,       \* __main__: the jobs the dry pass found
    runs,        \* __main__: invocations so far
    answer,      \* __main__: what the operator answered to 'Execute?', if asked
    unpack_d     \* the default argument d of unpack, one dict for all calls

vars == <<pc, master, tmps, lclFS, rmtFS, dry_run, recover, first_run, skip, auto,
          f, min_path, lcl_dif, rmt_dif, inter, counter, total_jobs, calls, raised,
          requested, folders, idx, history, MASTER, TEMP_FILE, corrupt, args_recovery,
          total, runs, answer, unpack_d>>

\* The state of __main__.py and the state of sinc.py that __main__.py has not.
mainVars == <<requested, folders, idx, history, MASTER, TEMP_FILE, corrupt, args_recovery,
              total, runs, answer>>

scriptVars == <<master, tmps, lclFS, rmtFS, first_run, skip, f, min_path, lcl_dif, rmt_dif,
                inter, total_jobs, calls, raised, unpack_d>>

NoFile == [absent |-> TRUE]

\* A file that json.load cannot parse.
Unreadable == [unreadable |-> TRUE]

mainOff ==
    /\ requested = <<>>
    /\ folders = <<>>
    /\ idx = 0
    /\ history = {}
    /\ corrupt = <<>>
    /\ args_recovery = FALSE
    /\ total = 0
    /\ answer = "none"

world == [lcl |-> lclFS, rmt |-> rmtFS, counter |-> counter]

tmp_of(path) == swap(path) \o TMP

(***************************************************************************)
(* sinc.py, the script: one folder of the loop of lines 455-538.           *)
(***************************************************************************)
\* A master.json earlier runs can have left: nothing, or the folder's listing.
Masters == {empty} \cup {[empty EXCEPT !.fold = Upd(@, Folder, pack(s))] : s \in Snapshots}

Init ==
    /\ pc = "begin"
    /\ master \in Masters
    /\ tmps \in {{}, {tmp_of(Folder)}}
    /\ lclFS \in {TreeOf(Folder, s) : s \in Snapshots}
    /\ rmtFS \in {TreeOf(Folder, s) : s \in Snapshots}
    /\ dry_run \in BOOLEAN
    /\ recover \in BOOLEAN
    /\ first_run = FALSE
    /\ skip \in BOOLEAN
    /\ auto \in BOOLEAN
    /\ f = direct(Folder)
    /\ min_path = <<>>
    /\ lcl_dif = {}
    /\ rmt_dif = {}
    /\ inter = {}
    /\ counter = 0
    /\ total_jobs = 0
    /\ calls = <<>>
    /\ raised = FALSE
    /\ mainOff /\ MASTER = NoFile /\ TEMP_FILE = NoFile /\ runs = 0
    /\ unpack_d = EmptyDict

\* lines 458-468: min_path, first sync mode, crash detection
Begin ==
    /\ pc = "begin"
    /\ UNCHANGED mainVars
    /\ UNCHANGED unpack_d
    /\ min_path' = get_min(master, f.path)
    /\ first_run' = (first_run \/ ~have(master, f.path))
    /\ recover' = (recover \/ tmp_of(f.path) \in tmps)
    /\ pc' = "crawl"
    /\ UNCHANGED <<master, tmps, lclFS, rmtFS, dry_run, skip, auto, f, lcl_dif, rmt_dif,
                   inter, counter, total_jobs, calls, raised>>

\* lines 475-478: list both sides, write the .tmp (write returns at once in a dry run)
Crawl ==
    /\ pc = "crawl"
    /\ UNCHANGED mainVars
    /\ UNCHANGED unpack_d
    /\ \E l \in Heard(lsl(lclFS, f.path \o <<"/">>)), r \in Heard(lsl(rmtFS, f.path \o <<"/">>)) :
          f' = [f EXCEPT !.lcl.d_tmp = l, !.rmt.d_tmp = r]
    /\ tmps' = IF dry_run THEN tmps ELSE tmps \cup {tmp_of(f.path)}
    /\ pc' = "read"
    /\ UNCHANGED <<master, lclFS, rmtFS, dry_run, recover, first_run, skip, auto, min_path,
                   lcl_dif, rmt_dif, inter, counter, total_jobs, calls, raised>>

\* lines 484-502: the old state, the difference of each side, the three sets of keys
ReadState ==
    /\ pc = "read"
    /\ UNCHANGED mainVars
    /\ LET old == unpack(get_branch(master, f.path), unpack_d, <<>>)
           f1  == IF first_run
                  THEN [f EXCEPT !.lcl.d_old = f.lcl.d_tmp, !.rmt.d_old = f.rmt.d_tmp]
                  ELSE [f EXCEPT !.lcl.d_old = old, !.rmt.d_old = old]
           f2  == [f1 EXCEPT !.lcl = build_dif(f1.lcl), !.rmt = build_dif(f1.rmt)]
       IN  /\ f' = f2
           /\ rmt_dif' = f2.rmt.s_dif \ f2.lcl.s_dif
           /\ lcl_dif' = f2.lcl.s_dif \ f2.rmt.s_dif
           /\ inter' = f2.rmt.s_dif \cap f2.lcl.s_dif
           /\ unpack_d' = IF first_run THEN unpack_d ELSE old
    /\ recover' = (recover \/ first_run)
    /\ pc' = "dry"
    /\ UNCHANGED <<master, tmps, lclFS, rmtFS, dry_run, first_run, skip, auto, min_path,
                   counter, total_jobs, calls, raised>>

\* lines 504-513: the dry pass; an exception of sync ends the script
DryPass ==
    /\ pc = "dry"
    /\ UNCHANGED mainVars
    /\ UNCHANGED unpack_d
    /\ LET r == sync(f, lcl_dif, rmt_dif, inter, recover)
           w == applyAll(world, r.calls, f.path \o <<"/">>, f.path \o <<"/">>, TRUE, skip)
       IN  /\ calls' = r.calls
           /\ raised' = r.err
           /\ lclFS' = w.lcl
           /\ rmtFS' = w.rmt
           /\ IF r.err
              THEN /\ pc' = "crashed"
                   /\ counter' = w.counter
                   /\ dry_run' = TRUE
                   /\ UNCHANGED total_jobs
              ELSE /\ pc' = "decide"
                   /\ total_jobs' = w.counter
                   /\ counter' = 0
                   /\ UNCHANGED dry_run
    /\ UNCHANGED <<master, tmps, recover, first_run, skip, auto, f, min_path, lcl_dif,
                   rmt_dif, inter>>

\* lines 515-523: total_jobs + 'jobs' raises TypeError in a dry run; counter was
\* set to 0 at line 513, so line 517 holds whenever it is reached
Decide ==
    /\ pc = "decide"
    /\ UNCHANGED mainVars
    /\ UNCHANGED unpack_d
    /\ IF dry_run
       THEN /\ pc' = "crashed"
            /\ UNCHANGED <<lclFS, rmtFS, counter, calls, raised>>
       ELSE IF counter = 0
       THEN /\ pc' = "save"
            /\ UNCHANGED <<lclFS, rmtFS, counter, calls, raised>>
       ELSE \E yes \in BOOLEAN :
            IF ~auto /\ ~yes
            THEN /\ pc' = "save"
                 /\ UNCHANGED <<lclFS, rmtFS, counter, calls, raised>>
            ELSE LET r == sync(f, lcl_dif, rmt_dif, inter, recover)
                     w == applyAll(world, r.calls, f.path \o <<"/">>, f.path \o <<"/">>,
                                   dry_run, skip)
                 IN  /\ calls' = r.calls
                     /\ raised' = r.err
                     /\ lclFS' = w.lcl
                     /\ rmtFS' = w.rmt
                     /\ counter' = w.counter
                     /\ pc' = IF r.err THEN "crashed" ELSE "save"
    /\ UNCHANGED <<master, tmps, dry_run, recover, first_run, skip, auto, f, min_path,
                   lcl_dif, rmt_dif, inter, total_jobs>>

\* lines 525-532: the local listing of min_path becomes the baseline
Save ==
    /\ pc = "save"
    /\ UNCHANGED mainVars
    /\ UNCHANGED unpack_d
    /\ \E l \in Heard(lsl(lclFS, min_path)) : master' = merge(master, min_path, pack(l))
    /\ pc' = "cleanup"
    /\ UNCHANGED <<tmps, lclFS, rmtFS, dry_run, recover, first_run, skip, auto, f, min_path,
                   lcl_dif, rmt_dif, inter, counter, total_jobs, calls, raised>>

\* lines 534-538: remove the .tmp
Cleanup ==
    /\ pc = "cleanup"
    /\ UNCHANGED mainVars
    /\ UNCHANGED unpack_d
    /\ tmps' = IF dry_run THEN tmps ELSE tmps \ {tmp_of(f.path)}
    /\ pc' = "done"
    /\ UNCHANGED <<master, lclFS, rmtFS, dry_run, recover, first_run, skip, auto, f,
                   min_path, lcl_dif, rmt_dif, inter, counter, total_jobs, calls, raised>>

Next ==
    \/ Begin
    \/ Crawl
    \/ ReadState
    \/ DryPass
    \/ Decide
    \/ Save
    \/ Cleanup

Spec == Init /\ [][Next]_vars

(***************************************************************************)
(* sinc.py, the script over two folders: the loop of lines 455-538 run for  *)
(* each folder of main in turn, in one process.                             *)
(***************************************************************************)
LoopFolders == {<<"d">>, <<"e">>}

\* The folders of the command line, each once, in either order.
LoopOrders == {<<x, y>> : x \in LoopFolders, y \in LoopFolders} \ {<<x, x>> : x \in LoopFolders}

\* A master.json that holds a baseline, an empty folder, for some of the folders.
RECURSIVE MasterOf(_)
MasterOf(have_) ==
    IF have_ = {} THEN empty
    ELSE LET x == CHOOSE y \in have_ : TRUE
         IN  merge(MasterOf(have_ \ {x}), x, empty)

\* lines 438-455: the arguments, main, master.json; the first folder of main
InitLoop ==
    /\ pc = "begin"
    /\ master \in {MasterOf(h) : h \in SUBSET LoopFolders}
    /\ tmps \in SUBSET {tmp_of(x) : x \in LoopFolders}
    /\ lclFS \in {TreeOf(Folder, s) : s \in {EmptyDict, [n \in {<<"a">>} |-> [bytesize |-> 1, datetime |-> 1]]}}
    /\ rmtFS = EmptyDict
    /\ dry_run = FALSE
    /\ args_recovery \in BOOLEAN
    /\ recover = args_recovery
    /\ first_run = FALSE
    /\ skip = FALSE
    /\ auto \in BOOLEAN
    /\ folders \in LoopOrders
    /\ idx = 1
    /\ f = direct(folders[1])
    /\ min_path = <<>>
    /\ lcl_dif = {}
    /\ rmt_dif = {}
    /\ inter = {}
    /\ counter = 0
    /\ total_jobs = 0
    /\ calls = <<>>
    /\ raised = FALSE
    /\ requested = folders
    /\ history = {} /\ corrupt = <<>> /\ total = 0 /\ answer = "none"
    /\ MASTER = NoFile /\ TEMP_FILE = NoFile /\ runs = 0
    /\ unpack_d = EmptyDict

\* line 455: for f in main, the next folder; what the last folder set stays set
NextFolder ==
    /\ pc = "done"
    /\ idx < Len(folders)
    /\ idx' = idx + 1
    /\ f' = direct(folders[idx + 1])
    /\ pc' = "begin"
    /\ UNCHANGED <<master, tmps, lclFS, rmtFS, dry_run, recover, first_run, skip, auto,
                   min_path, lcl_dif, rmt_dif, inter, counter, total_jobs, calls, raised,
                   requested, folders, history, MASTER, TEMP_FILE, corrupt, args_recovery,
                   total, runs, answer, unpack_d>>

NextLoop ==
    \/ Begin
    \/ Crawl
    \/ ReadState
    \/ DryPass
    \/ Decide
    \/ Save
    \/ Cleanup
    \/ NextFolder

SpecLoop == InitLoop /\ [][NextLoop]_vars

(***************************************************************************)
(* The functions for moving files about, called as sync calls them in a    *)
(* live or a dry pass: on a path of the folder that the side read from     *)
(* holds (a conflict: that both sides hold).                               *)
(***************************************************************************)
KeysOf(fs) == DOMAIN lsl(fs, Folder \o <<"/">>)

InitFiles ==
    /\ pc = "files"
    /\ lclFS \in {TreeOf(Folder, s) : s \in Snapshots}
    /\ rmtFS \in {TreeOf(Folder, s) : s \in Snapshots}
    /\ dry_run \in BOOLEAN
    /\ skip \in BOOLEAN
    /\ counter = 0
    /\ calls = <<>>
    /\ master = empty
    /\ tmps = {}
    /\ recover = FALSE
    /\ first_run = FALSE
    /\ auto = FALSE
    /\ f = direct(Folder)
    /\ min_path = <<>>
    /\ lcl_dif = {}
    /\ rmt_dif = {}
    /\ inter = {}
    /\ total_jobs = 0
    /\ raised = FALSE
    /\ mainOff /\ MASTER = NoFile /\ TEMP_FILE = NoFile /\ runs = 0
    /\ unpack_d = EmptyDict

Called(fn, key) ==
    /\ pc = "files"
    /\ UNCHANGED mainVars
    /\ UNCHANGED unpack_d
    /\ Len(calls) < MaxOps
    /\ LET w == apply(world, [fn |-> fn, key |-> key], f.path \o <<"/">>, f.path \o <<"/">>,
                      dry_run, skip)
       IN  /\ lclFS' = w.lcl
           /\ rmtFS' = w.rmt
           /\ counter' = w.counter
    /\ calls' = Append(calls, [fn |-> fn, key |-> key])
    /\ UNCHANGED <<pc, master, tmps, dry_run, recover, first_run, skip, auto, f, min_path,
                   lcl_dif, rmt_dif, inter, total_jobs, raised>>

CallCpyR == \E key \in KeysOf(lclFS) : Called("cpyR", key)

CallCpyL == \E key \in KeysOf(rmtFS) : Called("cpyL", key)

CallDelL == \E key \in KeysOf(lclFS) : Called("delL", key)

CallDelR == \E key \in KeysOf(rmtFS) : Called("delR", key)

CallConflict == \E key \in KeysOf(lclFS) \cap KeysOf(rmtFS) : Called("conflict", key)

NextFiles ==
    \/ CallCpyR
    \/ CallCpyL
    \/ CallDelL
    \/ CallDelR
    \/ CallConflict

SpecFiles == InitFiles /\ [][NextFiles]_vars

(***************************************************************************)
(* sync on its own: the differences (lines 497-502) and one call of sync,   *)
(* dry as at line 507 or live as at line 523, over listings of up to three *)
(* files, two of them with names that differ in case only.  The files of   *)
(* one listing have one size and time.                                     *)
(***************************************************************************)
SyncNames == {<<"a">>, <<"A">>, <<"e">>}

Listings == {EmptyDict} \cup
            UNION {[K -> {s}] : K \in (SUBSET SyncNames) \ {{}}, s \in FileState}

Baselines == {EmptyDict} \cup
             {[k \in K |-> [bytesize |-> 1, datetime |-> 1]] : K \in (SUBSET SyncNames) \ {{}}}

\* The state after lines 475-495, not in a first run.
InitSync ==
    /\ pc = "s_diff"
    /\ \E old \in Baselines, l \in Listings, r \in Listings :
          /\ f = [direct(Folder) EXCEPT !.lcl.d_old = old, !.rmt.d_old = old,
                                        !.lcl.d_tmp = l, !.rmt.d_tmp = r]
          /\ lclFS = TreeOf(Folder, l)
          /\ rmtFS = TreeOf(Folder, r)
    /\ recover \in BOOLEAN
    /\ dry_run \in BOOLEAN
    /\ skip = FALSE
    /\ first_run = FALSE
    /\ auto = FALSE
    /\ master = empty
    /\ tmps = {}
    /\ min_path = <<>>
    /\ lcl_dif = {}
    /\ rmt_dif = {}
    /\ inter = {}
    /\ counter = 0
    /\ total_jobs = 0
    /\ calls = <<>>
    /\ raised = FALSE
    /\ mainOff /\ MASTER = NoFile /\ TEMP_FILE = NoFile /\ runs = 0
    /\ unpack_d = EmptyDict

\* lines 497-502: f.build_dif() and the three sets of keys
Diff ==
    /\ pc = "s_diff"
    /\ LET f2 == [f EXCEPT !.lcl = build_dif(f.lcl), !.rmt = build_dif(f.rmt)]
       IN  /\ f' = f2
           /\ rmt_dif' = f2.rmt.s_dif \ f2.lcl.s_dif
           /\ lcl_dif' = f2.lcl.s_dif \ f2.rmt.s_dif
           /\ inter' = f2.rmt.s_dif \cap f2.lcl.s_dif
    /\ pc' = "s_sync"
    /\ UNCHANGED <<master, tmps, lclFS, rmtFS, dry_run, recover, first_run, skip, auto,
                   min_path, counter, total_jobs, calls, raised, unpack_d>>
    /\ UNCHANGED mainVars

\* lines 507, 523: sync(f, lcl_dif, rmt_dif, inter), under the global dry_run
Sync ==
    /\ pc = "s_sync"
    /\ LET r == sync(f, lcl_dif, rmt_dif, inter, recover)
           w == applyAll(world, r.calls, f.path \o <<"/">>, f.path \o <<"/">>, dry_run, skip)
       IN  /\ calls' = r.calls
           /\ raised' = r.err
           /\ lclFS' = w.lcl
           /\ rmtFS' = w.rmt
           /\ counter' = w.counter
    /\ pc' = "s_done"
    /\ UNCHANGED <<master, tmps, dry_run, recover, first_run, skip, auto, f, min_path,
                   lcl_dif, rmt_dif, inter, total_jobs, unpack_d>>
    /\ UNCHANGED mainVars

NextSync ==
    \/ Diff
    \/ Sync

SpecSync == InitSync /\ [][NextSync]_vars

(***************************************************************************)
(* Two passes over one folder: the differences and one call of sync as      *)
(* above, then the baseline written from the local listing (line 530) and   *)
(* a second pass, recovery off, over the sides as the first left them, up   *)
(* to the end of its dry pass (lines 475-513).                              *)
(***************************************************************************)
\* lines 528-530: merge(master, min_path, pack(lsl(BASE_L + min_path))), after a
\* pass that was not dry and did not raise
Persist ==
    /\ pc = "s_done"
    /\ ~dry_run
    /\ ~raised
    /\ master' = merge(master, f.path, pack(lsl(lclFS, f.path)))
    /\ pc' = "s_saved"
    /\ UNCHANGED <<tmps, lclFS, rmtFS, dry_run, recover, first_run, skip, auto, f, min_path,
                   lcl_dif, rmt_dif, inter, counter, total_jobs, calls, raised, unpack_d>>
    /\ UNCHANGED mainVars

\* lines 475-513 of the next pass over the folder: listings, old state, the
\* differences, the dry pass and its count of jobs
Again ==
    /\ pc = "s_saved"
    /\ LET old == unpack(get_branch(master, f.path), unpack_d, <<>>)
           f1  == [direct(f.path) EXCEPT
                       !.lcl.d_tmp = lsl(lclFS, f.path \o <<"/">>),
                       !.rmt.d_tmp = lsl(rmtFS, f.path \o <<"/">>),
                       !.lcl.d_old = old, !.rmt.d_old = old]
           f2  == [f1 EXCEPT !.lcl = build_dif(f1.lcl), !.rmt = build_dif(f1.rmt)]
           ld  == f2.lcl.s_dif \ f2.rmt.s_dif
           rd  == f2.rmt.s_dif \ f2.lcl.s_dif
           in  == f2.rmt.s_dif \cap f2.lcl.s_dif
           r   == sync(f2, ld, rd, in, FALSE)
           w   == applyAll([world EXCEPT !.counter = 0], r.calls,
                           f.path \o <<"/">>, f.path \o <<"/">>, TRUE, skip)
       IN  /\ f' = f2
           /\ lcl_dif' = ld
           /\ rmt_dif' = rd
           /\ inter' = in
           /\ calls' = r.calls
           /\ raised' = r.err
           /\ counter' = 0
           /\ total_jobs' = w.counter
           /\ unpack_d' = old
    /\ recover' = FALSE
    /\ pc' = "s_again"
    /\ UNCHANGED <<master, tmps, lclFS, rmtFS, dry_run, first_run, skip, auto, min_path>>
    /\ UNCHANGED mainVars

NextPasses ==
    \/ Diff
    \/ Sync
    \/ Persist
    \/ Again

SpecPasses == InitSync /\ [][NextPasses]_vars

(***************************************************************************)
(* The packed dictionary on its own: a sequence of folders, each on a path  *)
(* of its own, in one process.  For each folder get_min is asked for the    *)
(* path (line 458), a listing is merged into the tree at the path (line     *)
(* 530) and the branch at the path is unpacked again (line 492).            *)
(***************************************************************************)
TreePaths == {<<"d">>, <<"e">>, <<"d", "/", "e">>}

\* The trees the sequence starts from: nothing, or one empty folder chain.
Trees == {empty} \cup {merge(empty, p, empty) : p \in TreePaths}

InitTree ==
    /\ pc = "t_min"
    /\ master \in Trees
    /\ f = direct(<<>>)
    /\ history = {}
    /\ unpack_d = EmptyDict
    /\ min_path = <<>>
    /\ requested = <<>> /\ folders = <<>> /\ idx = 0 /\ corrupt = <<>>
    /\ args_recovery = FALSE /\ total = 0 /\ answer = "none"
    /\ MASTER = NoFile /\ TEMP_FILE = NoFile /\ runs = 0
    /\ lclFS = EmptyDict
    /\ rmtFS = EmptyDict
    /\ tmps = {}
    /\ recover = FALSE
    /\ dry_run = FALSE
    /\ skip = FALSE
    /\ first_run = FALSE
    /\ auto = FALSE
    /\ lcl_dif = {}
    /\ rmt_dif = {}
    /\ inter = {}
    /\ counter = 0
    /\ total_jobs = 0
    /\ calls = <<>>
    /\ raised = FALSE

\* line 458: min_path = get_min(master, f.path), for a path not taken before
GetMin ==
    /\ pc = "t_min"
    /\ \E path \in TreePaths \ history :
          /\ f' = [direct(path) EXCEPT !.lcl.d_old = f.lcl.d_old]
          /\ min_path' = get_min(master, path)
          /\ history' = history \cup {path}
    /\ pc' = "t_merge"
    /\ UNCHANGED <<master, unpack_d, tmps, lclFS, rmtFS, dry_run, recover, first_run, skip,
                   auto, lcl_dif, rmt_dif, inter, counter, total_jobs, calls, raised,
                   requested, folders, idx, MASTER, TEMP_FILE, corrupt, args_recovery,
                   total, runs, answer>>

\* line 530: merge(master, path, pack(listing))
Merge ==
    /\ pc = "t_merge"
    /\ \E snap \in Snapshots :
          /\ f' = [f EXCEPT !.lcl.d_tmp = snap]
          /\ master' = merge(master, f.path, pack(snap))
    /\ pc' = "t_unpack"
    /\ UNCHANGED <<unpack_d, min_path, history, tmps, lclFS, rmtFS, dry_run, recover,
                   first_run, skip, auto, lcl_dif, rmt_dif, inter, counter, total_jobs,
                   calls, raised, requested, folders, idx, MASTER, TEMP_FILE, corrupt,
                   args_recovery, total, runs, answer>>

\* line 492: old = unpack(get_branch(master, f.path)); d is the default of line 195,
\* the dict every call without d fills and returns
Unpack ==
    /\ pc = "t_unpack"
    /\ LET old == unpack(get_branch(master, f.path), unpack_d, <<>>)
       IN  /\ f' = [f EXCEPT !.lcl.d_old = old]
           /\ unpack_d' = old
    /\ counter' = counter + 1
    /\ pc' = "t_min"
    /\ UNCHANGED <<master, min_path, history, tmps, lclFS, rmtFS, dry_run, recover,
                   first_run, skip, auto, lcl_dif, rmt_dif, inter, total_jobs, calls,
                   raised, requested, folders, idx, MASTER, TEMP_FILE, corrupt,
                   args_recovery, total, runs, answer>>

NextTree == GetMin \/ Merge \/ Unpack

SpecTree == InitTree /\ [][NextTree]_vars

(***************************************************************************)
(* rsinc/__main__.py: main, over invocations of the program.  A process    *)
(* can end at any point (Crash); the master file and the sentinel stay.    *)
(* The listings, the classes and the jobs are those of rsinc.lsl,          *)
(* rsinc.calc_states and rsinc.sync: here a dry pass finds some number of  *)
(* jobs and a live pass runs them one after the other.                     *)
(***************************************************************************)
FolderNames == {<<"d">>, <<"e">>}

Requests == UNION {[1..n -> FolderNames] : n \in 0..MaxReq}

\* total = rsinc.sync(..., dry_run=True)
JobCounts == 0..MaxJobs

Range(seq) == {seq[j] : j \in DOMAIN seq}

Count(seq, x) == Cardinality({j \in DOMAIN seq : seq[j] = x})

\* list.remove(x): the first x goes
remove(seq, x) ==
    LET k == CHOOSE j \in DOMAIN seq : seq[j] = x /\ \A m \in 1..(j - 1) : seq[m] # x
    IN  SubSeq(seq, 1, k - 1) \o SubSeq(seq, k + 1, Len(seq))

InitMain ==
    /\ pc = "off"
    /\ mainOff /\ MASTER = NoFile /\ TEMP_FILE = NoFile /\ runs = 0
    /\ unpack_d = EmptyDict
    /\ dry_run = FALSE
    /\ recover = FALSE
    /\ auto = FALSE
    /\ counter = 0
    /\ master = empty
    /\ tmps = {}
    /\ lclFS = EmptyDict
    /\ rmtFS = EmptyDict
    /\ first_run = FALSE
    /\ skip = FALSE
    /\ f = direct(Folder)
    /\ min_path = <<>>
    /\ lcl_dif = {}
    /\ rmt_dif = {}
    /\ inter = {}
    /\ total_jobs = 0
    /\ calls = <<>>
    /\ raised = FALSE

\* The process is gone: what it held in memory is gone with it.
ProcessEnds ==
    /\ pc' = "off"
    /\ requested' = <<>>
    /\ folders' = <<>>
    /\ idx' = 0
    /\ history' = {}
    /\ corrupt' = <<>>
    /\ args_recovery' = FALSE
    /\ total' = 0
    /\ dry_run' = FALSE
    /\ recover' = FALSE
    /\ auto' = FALSE
    /\ counter' = 0
    /\ UNCHANGED <<MASTER, TEMP_FILE, runs>>
    /\ UNCHANGED scriptVars
    /\ answer' = "none"

\* lines 49-56, 206-241: the arguments, the folders, the master file
Start ==
    /\ pc = "off"
    /\ runs < MaxRuns
    /\ runs' = runs + 1
    /\ \E req \in Requests, purge \in BOOLEAN :
          /\ purge \/ MASTER # Unreadable
          /\ requested' = req
          /\ folders' = req
          /\ MASTER' = IF purge \/ MASTER = NoFile THEN [history |-> {}] ELSE MASTER
    /\ history' = MASTER'.history
    /\ dry_run' \in BOOLEAN
    /\ auto' \in BOOLEAN
    /\ args_recovery' \in BOOLEAN
    /\ recover' = args_recovery'
    /\ pc' = "m_detect"
    /\ UNCHANGED <<idx, TEMP_FILE, corrupt, total, counter>>
    /\ UNCHANGED scriptVars
    /\ answer' = "none"

\* line 239: read(MASTER) raises on a file that is not JSON, and main ends
StartFails ==
    /\ pc = "off"
    /\ runs < MaxRuns
    /\ MASTER = Unreadable
    /\ runs' = runs + 1
    /\ UNCHANGED <<pc, requested, folders, idx, history, MASTER, TEMP_FILE, corrupt,
                   args_recovery, total, answer, dry_run, recover, auto, counter>>
    /\ UNCHANGED scriptVars

\* lines 251-260: a sentinel at start puts its folder first and sets recover
DetectCrash ==
    /\ pc = "m_detect"
    /\ IF TEMP_FILE # NoFile
       THEN /\ corrupt' = TEMP_FILE.folder
            /\ folders' = <<corrupt'>> \o (IF corrupt' \in Range(folders)
                                           THEN remove(folders, corrupt')
                                           ELSE folders)
            /\ recover' = TRUE
       ELSE UNCHANGED <<corrupt, folders, recover>>
    /\ idx' = 1
    /\ pc' = "m_loop"
    /\ UNCHANGED <<requested, history, MASTER, TEMP_FILE, args_recovery, total, runs,
                   dry_run, auto, counter>>
    /\ UNCHANGED scriptVars
    /\ UNCHANGED answer

\* lines 263-273: the next folder; one not in history is a first sync
LoopHead ==
    /\ pc = "m_loop"
    /\ idx <= Len(folders)
    /\ recover' = (recover \/ folders[idx] \notin history)
    /\ pc' = "m_dry"
    /\ UNCHANGED <<mainVars, dry_run, auto, counter>>
    /\ UNCHANGED scriptVars

\* lines 276-302: the listings and the dry pass
DryPassMain ==
    /\ pc = "m_dry"
    /\ total' \in JobCounts
    /\ pc' = "m_ask"
    /\ UNCHANGED <<requested, folders, idx, history, MASTER, TEMP_FILE, corrupt,
                   args_recovery, runs, dry_run, recover, auto, counter>>
    /\ UNCHANGED scriptVars
    /\ UNCHANGED answer

Confirm_jobs_only ==
    /\ pc = "m_ask"
    /\ IF ~dry_run /\ ~auto /\ total # 0
       THEN answer' \in {"yes", "no"}
       ELSE answer' = "none"
    /\ pc' = IF ~dry_run /\ (auto \/ answer' = "yes") /\ total # 0 THEN "m_temp" ELSE "m_end"
    /\ UNCHANGED <<requested, folders, idx, history, MASTER, TEMP_FILE, corrupt,
                   args_recovery, total, runs, dry_run, recover, auto, counter>>
    /\ UNCHANGED scriptVars

Confirm_unasked ==
    /\ pc = "m_ask"
    /\ IF ~dry_run /\ ~auto /\ total # 0
       THEN answer' \in {"yes", "no"}
       ELSE answer' = "none"
    /\ pc' = IF ~dry_run /\ (total # 0 \/ recover) THEN "m_temp" ELSE "m_end"
    /\ UNCHANGED <<requested, folders, idx, history, MASTER, TEMP_FILE, corrupt,
                   args_recovery, total, runs, dry_run, recover, auto, counter>>
    /\ UNCHANGED scriptVars

\* lines 304-305: input('Execute? ') is asked only when auto is off and jobs were found
Confirm ==
    /\ pc = "m_ask"
    /\ IF ~dry_run /\ ~auto /\ total # 0
       THEN answer' \in {"yes", "no"}
       ELSE answer' = "none"
    /\ pc' = IF ~dry_run /\ (auto \/ total = 0 \/ answer' = "yes") /\ (total # 0 \/ recover)
             THEN "m_temp" ELSE "m_end"
    /\ UNCHANGED <<requested, folders, idx, history, MASTER, TEMP_FILE, corrupt,
                   args_recovery, total, runs, dry_run, recover, auto, counter>>
    /\ UNCHANGED scriptVars

WriteTemp_forgotten ==
    /\ pc = "m_temp"
    /\ pc' = "m_live"
    /\ UNCHANGED <<mainVars, dry_run, recover, auto, counter>>
    /\ UNCHANGED scriptVars

\* line 308: write(TEMP_FILE, {'folder': folder})
WriteTemp ==
    /\ pc = "m_temp"
    /\ TEMP_FILE' = [folder |-> folders[idx]]
    /\ pc' = "m_live"
    /\ UNCHANGED <<requested, folders, idx, history, MASTER, corrupt, args_recovery, total,
                   runs, dry_run, recover, auto, counter>>
    /\ UNCHANGED scriptVars
    /\ UNCHANGED answer

\* lines 309-310: the live pass runs its next job
LiveJob ==
    /\ pc = "m_live"
    /\ counter < total
    /\ counter' = counter + 1
    /\ UNCHANGED <<pc, mainVars, dry_run, recover, auto>>
    /\ UNCHANGED scriptVars

\* lines 309-310: the live pass returns
LiveDone ==
    /\ pc = "m_live"
    /\ counter = total
    /\ pc' = "m_save"
    /\ UNCHANGED <<mainVars, dry_run, recover, auto, counter>>
    /\ UNCHANGED scriptVars

\* lines 312-325: the folder joins history and the master file is written
SaveMaster ==
    /\ pc = "m_save"
    /\ history' = history \cup {folders[idx]}
    /\ MASTER' = [history |-> history']
    /\ pc' = "m_rm"
    /\ UNCHANGED <<requested, folders, idx, TEMP_FILE, corrupt, args_recovery, total, runs,
                   dry_run, recover, auto, counter>>
    /\ UNCHANGED scriptVars
    /\ UNCHANGED answer

\* line 326: rm TEMP_FILE
RemoveTemp ==
    /\ pc = "m_rm"
    /\ TEMP_FILE' = NoFile
    /\ pc' = "m_end"
    /\ UNCHANGED <<requested, folders, idx, history, MASTER, corrupt, args_recovery, total,
                   runs, dry_run, recover, auto, counter>>
    /\ UNCHANGED scriptVars
    /\ UNCHANGED answer

\* lines 330-338: recover is args.recovery again for the next folder
EndIter ==
    /\ pc = "m_end"
    /\ recover' = args_recovery
    /\ idx' = idx + 1
    /\ total' = 0
    /\ counter' = 0
    /\ pc' = "m_loop"
    /\ UNCHANGED <<requested, folders, history, MASTER, TEMP_FILE, corrupt, args_recovery,
                   runs, dry_run, auto>>
    /\ UNCHANGED scriptVars
    /\ answer' = "none"

\* lines 340-341: the loop is over
Exit ==
    /\ pc = "m_loop"
    /\ idx > Len(folders)
    /\ ProcessEnds

\* The process is killed.
Crash ==
    /\ pc \in {"m_detect", "m_loop", "m_dry", "m_ask", "m_temp", "m_live", "m_save",
               "m_rm", "m_end"}
    /\ ProcessEnds

\* lines 82-85, 325: the process is killed inside write(MASTER, ...), after
\* open(file, 'w') has emptied the file and before json.dump has finished
TornWrite ==
    /\ pc = "m_save"
    /\ MASTER' = Unreadable
    /\ pc' = "off"
    /\ requested' = <<>>
    /\ folders' = <<>>
    /\ idx' = 0
    /\ history' = {}
    /\ corrupt' = <<>>
    /\ args_recovery' = FALSE
    /\ total' = 0
    /\ answer' = "none"
    /\ dry_run' = FALSE
    /\ recover' = FALSE
    /\ auto' = FALSE
    /\ counter' = 0
    /\ UNCHANGED <<TEMP_FILE, runs>>
    /\ UNCHANGED scriptVars

NextMain ==
    \/ Start
    \/ StartFails
    \/ DetectCrash
    \/ LoopHead
    \/ DryPassMain
    \/ Confirm
    \/ WriteTemp
    \/ LiveJob
    \/ LiveDone
    \/ SaveMaster
    \/ RemoveTemp
    \/ EndIter
    \/ Exit
    \/ Crash
    \/ TornWrite

SpecMain == InitMain /\ [][NextMain]_vars

(***************************************************************************)
(* Reading a pass.                                                         *)
(***************************************************************************)
\* What each function reports on the terminal: Push, Pull, Delete, Conflict.
Action(fn) ==
    CASE fn = "cpyR"     -> "Push"
      [] fn = "cpyL"     -> "Pull"
      [] fn = "delL"     -> "DeleteLocal"
      [] fn = "delR"     -> "DeleteRemote"
      [] fn = "conflict" -> "Conflict"
      [] fn = "null"     -> "NoOp"
      [] OTHER           -> "Skipped"

\* The sync of the pass has run (to its end, or until it raised).
Synced == pc \notin {"begin", "crawl", "read", "dry"}

\* The actions the pass took for a path, in order; doing nothing is no action.
ActionsFor(key) ==
    LET cs == SelectSeq(calls, LAMBDA c : c.key = key /\ Action(c.fn) \notin {"NoOp", "Skipped"})
    IN  [i \in DOMAIN cs |-> Action(cs[i].fn)]

\* The class of a path on one side, -1 when the side's difference lacks it.
ClassOf(side, key) == IF key \in DOMAIN side.d_dif THEN side.d_dif[key] ELSE -1

\* The table of the specification, rows local, columns remote, classes
\* Unchanged, Modified, Deleted, Created.
SpecTable ==
    << <<"NoOp", "Pull", "DeleteLocal", "Conflict">>,
       <<"Push", "Conflict", "Push", "Conflict">>,
       <<"DeleteRemote", "Pull", "NoOp", "Pull">>,
       <<"Conflict", "Conflict", "Push", "Conflict">> >>

Expected(a) == IF a = "NoOp" THEN <<>> ELSE <<a>>

\* Another name on the destination side that differs from key in case only.
CaseClash(key, dest) == \E k \in DOMAIN dest.d_tmp : k # key /\ lower(k) = lower(key)

(***************************************************************************)
(* C1: the decision table LOGIC yields exactly one action for each of the  *)
(* 16 pairs of classes, the action of the specification's table; and       *)
(* whenever sync runs the table loop, each path of inter is dispatched     *)
(* once, to the entry of its two classes.                                  *)
(***************************************************************************)
C1_DecisionTable ==
    /\ \A l \in 0..3, r \in 0..3 : Action(LOGIC[l + 1][r + 1]) = SpecTable[l + 1][r + 1]
    /\ (Synced /\ recover /\ ~raised) =>
          LET S == sorted(inter)
              n == Len(calls) - Len(S)
          IN  /\ n >= 0
              /\ \A i \in DOMAIN S :
                    /\ calls[n + i].key = S[i]
                    /\ Action(calls[n + i].fn) =
                          SpecTable[f.lcl.d_dif[S[i]] + 1][f.rmt.d_dif[S[i]] + 1]

\* The table loop has dispatched a path both sides modified.
C1_Witness ==
    /\ Synced /\ recover /\ ~raised
    /\ \E key \in inter :
          /\ f.lcl.d_dif[key] = 1 /\ f.rmt.d_dif[key] = 1
          /\ \E i \in DOMAIN calls : calls[i] = [fn |-> "conflict", key |-> key]

(***************************************************************************)
(* C2: in a pass that is not in recovery mode, every path in the           *)
(* difference of both sides gets exactly the one action of the table for   *)
(* its two classes, and no other.                                          *)
(***************************************************************************)
C2_BothByTable ==
    (Synced /\ ~recover /\ ~raised) =>
        \A key \in inter :
            ActionsFor(key) =
                Expected(SpecTable[f.lcl.d_dif[key] + 1][f.rmt.d_dif[key] + 1])

(***************************************************************************)
(* C3: a path created or modified on the local side only gets exactly one  *)
(* Push, and one created or modified on the remote side only exactly one   *)
(* Pull, unless a name differing in case only is on the destination.       *)
(***************************************************************************)
C3_OneSidedCopy ==
    (Synced /\ ~raised) =>
        \A key \in DOMAIN f.lcl.d_dif \cup DOMAIN f.rmt.d_dif :
            /\ ( /\ ClassOf(f.lcl, key) \in {1, 3}
                 /\ ClassOf(f.rmt, key) \in {-1, 0}
                 /\ ~CaseClash(key, f.rmt) ) => ActionsFor(key) = <<"Push">>
            /\ ( /\ ClassOf(f.rmt, key) \in {1, 3}
                 /\ ClassOf(f.lcl, key) \in {-1, 0}
                 /\ ~CaseClash(key, f.lcl) ) => ActionsFor(key) = <<"Pull">>

(***************************************************************************)
(* C4: a path deleted on the local side and unchanged on the remote side   *)
(* gets no action in the pass; in particular it is not deleted remotely.   *)
(***************************************************************************)
C4_NoUnilateralDelete ==
    Synced =>
        \A key \in DOMAIN f.lcl.d_dif :
            (f.lcl.d_dif[key] = 2 /\ ClassOf(f.rmt, key) \in {-1, 0}) =>
                \A i \in DOMAIN calls : calls[i].key = key => calls[i].fn = "null"

\* A pass outside recovery mode has run over a path deleted locally only.
C4_Witness ==
    /\ pc = "decide" /\ ~recover
    /\ \E key \in inter : f.lcl.d_dif[key] = 2 /\ f.rmt.d_dif[key] = 0

(***************************************************************************)
(* C6: in a recovery pass a path in the difference of both sides, present  *)
(* on both, gets a Push when the sizes differ and the local time is newer, *)
(* a Pull when the sizes differ and the remote time is newer, and nothing  *)
(* otherwise; the table is not used.                                       *)
(***************************************************************************)
C6_RecoveryBySizeAndTime ==
    (Synced /\ recover /\ ~raised) =>
        \A key \in inter \cap DOMAIN f.lcl.d_tmp \cap DOMAIN f.rmt.d_tmp :
            LET l == f.lcl.d_tmp[key]
                r == f.rmt.d_tmp[key]
            IN  ActionsFor(key) =
                    IF l.bytesize # r.bytesize /\ l.datetime > r.datetime THEN <<"Push">>
                    ELSE IF l.bytesize # r.bytesize /\ r.datetime > l.datetime THEN <<"Pull">>
                    ELSE <<>>

(***************************************************************************)
(* C7: build_dif gives every path of the baseline or the listing exactly   *)
(* one class: Deleted iff only in the baseline, Created iff only in the    *)
(* listing, Modified iff in both with another size or a strictly newer     *)
(* time, Unchanged otherwise; so Deleted, Unchanged and Modified make up   *)
(* the baseline, and Created, Unchanged and Modified the listing.          *)
(***************************************************************************)
Classified(side) ==
    LET O   == DOMAIN side.d_old
        C   == DOMAIN side.d_tmp
        K(c) == {key \in DOMAIN side.d_dif : side.d_dif[key] = c}
    IN  /\ DOMAIN side.d_dif = O \cup C
        /\ \A key \in O \cup C :
              /\ side.d_dif[key] \in 0..3
              /\ side.d_dif[key] = 2 <=> key \in O \ C
              /\ side.d_dif[key] = 3 <=> key \in C \ O
              /\ side.d_dif[key] = 1 <=>
                    /\ key \in O \cap C
                    /\ \/ side.d_tmp[key].bytesize # side.d_old[key].bytesize
                       \/ side.d_tmp[key].datetime > side.d_old[key].datetime
        /\ K(2) \cup K(0) \cup K(1) = O
        /\ K(3) \cup K(0) \cup K(1) = C

C7_Classify ==
    pc \notin {"begin", "crawl", "read"} => Classified(f.lcl) /\ Classified(f.rmt)

\* A listed file of the baseline's size and of an older time is Unchanged.
C7_Witness ==
    /\ pc = "dry"
    /\ \E key \in DOMAIN f.lcl.d_dif :
          /\ f.lcl.d_dif[key] = 0
          /\ f.lcl.d_tmp[key].bytesize = f.lcl.d_old[key].bytesize
          /\ f.lcl.d_tmp[key].datetime < f.lcl.d_old[key].datetime
    /\ \E key \in DOMAIN f.rmt.d_dif : f.rmt.d_dif[key] = 1

(***************************************************************************)
(* C5: when conflict has handled a path in a live pass without skip, the   *)
(* path is on neither side, and path.lcl_conflict, the former local file,  *)
(* and path.rmt_conflict, the former remote file, are on both sides.       *)
(***************************************************************************)
C5_ConflictKeepsBoth ==
    [][ \A key \in KeysOf(lclFS) \cap KeysOf(rmtFS) :
          ( /\ calls' = Append(calls, [fn |-> "conflict", key |-> key])
            /\ ~skip /\ ~dry_run ) =>
              LET x == Folder \o <<"/">> \o key
              IN  /\ x \notin DOMAIN lclFS' /\ x \notin DOMAIN rmtFS'
                  /\ x \o LCL_CONFLICT \in DOMAIN lclFS' /\ x \o LCL_CONFLICT \in DOMAIN rmtFS'
                  /\ x \o RMT_CONFLICT \in DOMAIN lclFS' /\ x \o RMT_CONFLICT \in DOMAIN rmtFS'
                  /\ lclFS'[x \o LCL_CONFLICT] = lclFS[x]
                  /\ rmtFS'[x \o LCL_CONFLICT] = lclFS[x]
                  /\ lclFS'[x \o RMT_CONFLICT] = rmtFS[x]
                  /\ rmtFS'[x \o RMT_CONFLICT] = rmtFS[x] ]_vars

\* A live conflict over two different versions has just been handled.
C5_Witness ==
    /\ pc = "files" /\ ~skip /\ ~dry_run
    /\ calls # <<>>
    /\ calls[Len(calls)].fn = "conflict"
    /\ LET x == Folder \o <<"/">> \o calls[Len(calls)].key
       IN  /\ x \notin DOMAIN lclFS /\ x \notin DOMAIN rmtFS
           /\ {x \o LCL_CONFLICT, x \o RMT_CONFLICT} \subseteq DOMAIN lclFS \cap DOMAIN rmtFS
           /\ lclFS[x \o LCL_CONFLICT] # lclFS[x \o RMT_CONFLICT]


(***************************************************************************)
(* The crash sentinel of rsinc/__main__.py.                                *)
(***************************************************************************)
Sentinel(S) == [folder |-> S]

InLivePass == pc \in {"m_live", "m_save", "m_rm"}

InLoop == pc \in {"m_loop", "m_dry", "m_ask", "m_temp", "m_live", "m_save", "m_rm", "m_end"}

\* C8: whenever a live pass on a folder is running (its jobs, and the write
\* of the new baseline after them) the sentinel file names that folder, and
\* a process that ends inside the live pass leaves that sentinel behind.
C8_SentinelDuringLivePass ==
    [][ /\ InLivePass' => TEMP_FILE' = Sentinel(folders'[idx'])
        /\ (InLivePass /\ pc' = "off") => TEMP_FILE' = Sentinel(folders[idx]) ]_vars

\* A live pass has run some of its jobs and not yet all of them.
C8_Witness ==
    /\ pc = "m_live"
    /\ 0 < counter
    /\ counter < total
    /\ TEMP_FILE = Sentinel(folders[idx])

\* C9: a sentinel naming folder S goes away (is removed or replaced) only in
\* the step that follows the completed live pass and baseline write of S.
C9_SentinelOnlyRemovedAfterLivePass ==
    [][ \A S \in FolderNames :
           (TEMP_FILE = Sentinel(S) /\ TEMP_FILE' # TEMP_FILE)
              => (pc = "m_rm" /\ folders[idx] = S) ]_vars

\* C10: a sentinel found at start names S; S is first in the queue,
\* is in the queue exactly once, and is processed first, in recovery mode.
C10_SentinelFirstExactlyOnce ==
    (InLoop /\ corrupt # <<>>) =>
        /\ folders[1] = corrupt
        /\ Count(folders, corrupt) = 1
        /\ (idx = 1 => recover)

(***************************************************************************)
(* The live pass and the baseline.                                         *)
(***************************************************************************)
\* C11: the baseline in master.json is rewritten only when a pass has come
\* to its end with every job of the dry pass executed (a live pass has run
\* and succeeded), and then it becomes the local listing of that moment.
C11_BaselineOnlyAfterLivePass ==
    [][ master' # master =>
          /\ pc = "save"
          /\ ~raised
          /\ counter = total_jobs
          /\ \E l \in Heard(lsl(lclFS, min_path)) :
                 master' = merge(master, min_path, pack(l)) ]_vars

\* The decision of lines 304-305 has been taken for the folder of the loop.
Decided == pc \in {"m_temp", "m_live", "m_save", "m_rm", "m_end"}

\* C12: when the dry pass found jobs, auto is off and the operator did not
\* answer yes, the folder gets no live pass: no sentinel step, no job.
C12_NoLivePassWithoutConsent ==
    (Decided /\ total # 0 /\ ~auto /\ answer # "yes") => (pc = "m_end" /\ counter = 0)

\* The operator was asked about a pass with jobs and said no.
C12_Witness ==
    /\ pc = "m_end"
    /\ ~dry_run /\ ~auto
    /\ total > 0
    /\ answer = "no"
    /\ counter = 0

\* C13: with dry_run off, a pass with auto-confirm on (or with no job found)
\* gets its live pass, and the live pass executes every job the dry pass
\* reported: once the decision is taken, counter has reached total_jobs.
C13_LivePassRunsAllJobs ==
    (pc \in {"save", "cleanup", "done"} /\ ~dry_run /\ ~raised /\ (auto \/ total_jobs = 0))
        => counter = total_jobs

\* The live pass of the folder of the loop has run, all its jobs, and the
\* master file with the folder in it has been written, the sentinel removed.
LivePassSaved ==
    /\ counter = total
    /\ MASTER # NoFile
    /\ folders[idx] \in MASTER.history
    /\ TEMP_FILE = NoFile

Persisted(m) == IF m \in {NoFile, Unreadable} THEN {} ELSE m.history

\* C15: in an invocation with the dry-run flag set no step changes what the
\* master file holds, and no step writes or removes the sentinel.
C15_DryRunChangesNothing ==
    [][ (dry_run \/ dry_run') =>
          /\ Persisted(MASTER') = Persisted(MASTER)
          /\ TEMP_FILE' = TEMP_FILE ]_vars

(***************************************************************************)
(* Names that differ in case only.                                         *)
(***************************************************************************)
\* The listing of a side holds a name that is key when both are lower-cased.
LowerOn(side, key) == \E k \in DOMAIN side.d_tmp : lower(k) = lower(key)

\* What sync dispatched for a path, in order.
CallsFor(key) ==
    LET cs == SelectSeq(calls, LAMBDA c : c.key = key)
    IN  [i \in DOMAIN cs |-> cs[i].fn]

C17_MissingOrCorruptMasterIsEmpty ==
    [][ (pc = "off" /\ runs' = runs + 1 /\ MASTER \in {NoFile, Unreadable}) =>
          /\ pc' = "m_detect"
          /\ history' = {}
          /\ Persisted(MASTER') = {}
          /\ MASTER' # Unreadable ]_vars

(***************************************************************************)
(* Failures of rclone.                                                     *)
(***************************************************************************)
\* A listing of the pass is not what its side holds: rclone lsl failed.
ListingIncomplete ==
    \/ f.lcl.d_tmp # lsl(lclFS, f.path \o <<"/">>)
    \/ f.rmt.d_tmp # lsl(rmtFS, f.path \o <<"/">>)

\* C18: once a listing of a folder has failed, the pass of that folder is
\* over: no later step of it changes a file on either side or rewrites the
\* baseline in master.json.
C18_FailedListingAbortsPass ==
    [][ (pc \in {"read", "dry", "decide", "save"} /\ ListingIncomplete) =>
          /\ master' = master
          /\ lclFS' = lclFS
          /\ rmtFS' = rmtFS ]_vars


(***************************************************************************)
(* C19: a listing merged into the tree at a path and unpacked from the      *)
(* branch at that path comes back as it went in: the same keys, the same    *)
(* states, nothing more.  This is so for every folder of a sequence of      *)
(* folders on different paths, not for the first only.                      *)
(***************************************************************************)
C19_RoundTrip ==
    (pc = "t_min" /\ counter > 0) => f.lcl.d_old = f.lcl.d_tmp

(***************************************************************************)
(* C20: get_min returns a prefix of the path whose every component is       *)
(* present in the tree as a chain of folders; it is never longer than the   *)
(* chain that is there.                                                     *)
(***************************************************************************)
C20_MinPathPresent ==
    pc = "t_merge" =>
        /\ IsPrefix(split(min_path), split(f.path))
        /\ have(master, min_path)


\* The chains of folder names a tree of the sequence can hold, the root included.
AllChains ==
    {<<>>} \cup UNION {{SubSeq(split(p), 1, n) : n \in 1..Len(split(p))} : p \in TreePaths}

\* The node at chain c before and after a step is the same but for the folder
\* through which path goes on: the same files, the same folders and at most
\* the next folder of path more.  A node that was not there is new, empty but
\* for that folder, and on the way to path.
Kept(c, path) ==
    LET chain == split(path)
        was   == _get_branch(master, c)
        is    == _get_branch(master', c)
        next  == IF IsPrefix(c, chain) /\ Len(c) < Len(chain) THEN {chain[Len(c) + 1]} ELSE {}
    IN  IF was # Missing
        THEN /\ is # Missing
             /\ is.file = was.file
             /\ DOMAIN was.fold \subseteq DOMAIN is.fold
             /\ DOMAIN is.fold \ DOMAIN was.fold \subseteq next
        ELSE is # Missing =>
                /\ is.file = EmptyDict
                /\ DOMAIN is.fold = next
                /\ next # {}

(***************************************************************************)
(* C21: merging a listing into the tree at a path rewrites the node at the  *)
(* path and nothing else: the files of the folders above it, the folders    *)
(* beside it and all they hold stay as they were, and a folder missing on   *)
(* the way to the path is made empty.                                       *)
(***************************************************************************)
C21_MergeRewritesOnlyThePath ==
    [][ pc = "t_merge" =>
          /\ \A c \in AllChains : ~IsPrefix(split(f.path), c) => Kept(c, f.path)
          /\ _get_branch(master', split(f.path)) = pack(f'.lcl.d_tmp) ]_vars

\* A listing has been merged at d/e or at e while folder d held a file.
C21_Witness ==
    /\ pc = "t_unpack"
    /\ f.path \in {<<"d", "/", "e">>, <<"e">>}
    /\ have(master, <<"d">>)
    /\ get_branch(master, <<"d">>).file # EmptyDict


\* The files the baseline records for the folder of the pass.
Recorded == unpack(get_branch(master, f.path), EmptyDict, <<>>)

(***************************************************************************)
(* C22: when the baseline of a folder has been written, every file it       *)
(* records is on the local side and on the remote side under the same path  *)
(* and with the same size.                                                  *)
(***************************************************************************)
C22_BaselineOnBothSides ==
    pc = "cleanup" =>
        \A k \in DOMAIN Recorded :
            LET p == f.path \o <<"/">> \o k
            IN  /\ p \in DOMAIN lclFS
                /\ p \in DOMAIN rmtFS
                /\ lclFS[p].bytesize = Recorded[k].bytesize
                /\ rmtFS[p].bytesize = Recorded[k].bytesize


\* sync held a push or a pull back for a case mismatch.
CaseSkipped ==
    \/ \E key \in lcl_dif : f.lcl.d_dif[key] # 2 /\ CASE_INSENSATIVE /\ LowerOn(f.rmt, key)
    \/ \E key \in rmt_dif : f.rmt.d_dif[key] # 2 /\ CASE_INSENSATIVE /\ LowerOn(f.lcl, key)

\* sync called conflict.
Conflicted == \E i \in DOMAIN calls : calls[i].fn = "conflict"

(***************************************************************************)
(* C23: after a live pass over a folder that raised no conflict and held    *)
(* nothing back for a case mismatch, with neither side touched since, the   *)
(* next pass with recovery off finds no job: every path is unchanged on     *)
(* both sides against the baseline the first pass wrote.                    *)
(***************************************************************************)
C23_SecondPassFindsNothing ==
    [][ (pc = "s_saved" /\ ~Conflicted /\ ~CaseSkipped) =>
          /\ total_jobs' = 0
          /\ \A key \in DOMAIN f'.lcl.d_dif : f'.lcl.d_dif[key] = 0
          /\ \A key \in DOMAIN f'.rmt.d_dif : f'.rmt.d_dif[key] = 0 ]_vars


(***************************************************************************)
(* C24: a folder is synced in recovery or first sync mode only when the     *)
(* operator asked for recovery, or the folder has a .tmp left by a crash,   *)
(* or master.json has no baseline of it; what was decided for an earlier    *)
(* folder of the same run does not count for a later one.                   *)
(***************************************************************************)
C24_ModePerFolder ==
    pc = "crawl" =>
        ((recover \/ first_run) =>
            \/ args_recovery
            \/ tmp_of(f.path) \in tmps
            \/ ~have(master, f.path))


(***************************************************************************)
(* C25: a pass in recovery mode comes to its end whatever the baseline and  *)
(* the two listings are: sizes and times are compared only for paths both   *)
(* listings hold, and a path of the baseline that one listing lacks does    *)
(* not make sync raise.                                                     *)
(***************************************************************************)
C25_RecoveryPassCompletes ==
    (recover /\ pc \in {"decide", "save", "cleanup", "done", "crashed"}) => ~raised

====
